---- MODULE Spec2Model ----
(***************************************************************************)
(* A model of providers/provider-erc4337.ts: the settlement tracker        *)
(* (UserOperationEventListener), Erc4337Provider.getTransactionReceipt     *)
(* and the signer's populate / estimate / sign / send pipeline.            *)
(***************************************************************************)
EXTENDS Integers, Sequences, FiniteSets, TLC

(***************************************************************************)
(* Bounds of the model and constants of the program.                       *)
(***************************************************************************)
\* how many settlement-event candidates the chain emits
MaxEvents == 2
\* how many blocks are mined after the first one
MaxBlocks == 1

\* provider-erc4337.ts:261
DEFAULT_TRANSACTION_TIMEOUT == 10000
\* provider-erc4337.ts:296, the delay of start()'s setTimeout
StartDelay == 100

\* the value of an absent optional argument or field (undefined / null)
Null == "null"
\* the timeout argument of the constructor: absent, or a number of ms
TimeoutArgs == {Null, "50"}
\* the entryPoint argument of the constructor: Contract | null
EntryPointArgs == {Null, "contract"}

\* the identifier the tracker is constructed with, and another one
TrackedHash == "hash"
OtherHash == "otherHash"
\* the candidate events the event source can produce.  The topic filter is
\* advisory: an event without args or with another userOpHash may be delivered.
Events == {"success", "failure", "wrongHash", "noArgs"}
\* the revertReason of a UserOperationRevertReason event
Reasons == {"revertA", "revertB"}

VARIABLES
  constructed,  \* a UserOperationEventListener exists
  entryPoint,   \* its entryPoint field: Null or "contract"
  timeout,      \* its timeout field: Null or a number of ms (as a string)
  sameTick,     \* start() ran in the same tick as the constructor
  started,      \* start() has been called
  startThrew,   \* start() threw (entryPoint is null)
  timer,        \* the constructor's setTimeout: "none" | "armed" | "fired"
  startTimer,   \* start()'s setTimeout: "none" | "armed" | "fired"
  query,        \* queryFilter of start(): "none" | "sent" | "served" | "done" | "failed"
  queryRes,     \* the events the node put in the answer to that query
  sub,          \* boundListener is registered on the entry point
  cbs,          \* the invocations of listenerCallback: [ev, pc, reason]
  calls,        \* log of the invocations of listenerCallback, resolve and reject
  resolved,     \* the tracker's resolved field
  promise,      \* the promise of getTransactionReceipt: [state, value]
  chain,        \* the events emitted so far: sequence of [ev, block, late],
                \* late: the timeout timer had fired when the event was emitted
  head          \* the number of the latest block

trackerVars == <<constructed, entryPoint, timeout, sameTick, started, startThrew,
                 timer, startTimer, query, queryRes, sub, cbs, calls, resolved,
                 promise, chain, head>>

(***************************************************************************)
(* The pipeline of Erc4337Provider and Erc4337Signer.                      *)
(***************************************************************************)
\* how many API calls are made on the provider and its signer in one run
MaxCalls == 2
\* the callers; those of Sequential make their calls one after the other
Procs == {"c1", "c2"}
Sequential == {"c1"}

VARIABLES
  supportedEntryPoints, \* provider.supportedEntryPoints: [cached, list]
  isCodeDeployedField,  \* signer._isCodeDeployed: Absent, or Bool(b)
  ops,                  \* the UserOperation instances the callers hold
  procs,                \* the API call of each caller and its position
  codeAtSender,         \* bytecode is present at the sender address now
  nCalls                \* the number of API calls started

pipeVars == <<supportedEntryPoints, isCodeDeployedField, ops, procs,
              codeAtSender, nCalls>>

vars == <<trackerVars, pipeVars>>

(***************************************************************************)
(* Events (EventLog.args of a UserOperationEvent).                         *)
(***************************************************************************)
HasArgs(e) == e # "noArgs"
UserOpHashOf(e) == IF e = "wrongHash" THEN OtherHash ELSE TrackedHash
SuccessOf(e) == e = "success"

\* the timeout the constructor arms its timer with: this.timeout ?? DEFAULT
TimeoutMs(t) ==
  IF t = Null THEN DEFAULT_TRANSACTION_TIMEOUT ELSE 50

(***************************************************************************)
(* The promise of getTransactionReceipt: the first settlement wins, a      *)
(* promise that is not pending (or does not exist) ignores the call.       *)
(***************************************************************************)
NoPromise == [state |-> "none", value |-> Null]
Settle(p, st, v) == IF p.state = "pending" THEN [state |-> st, value |-> v] ELSE p

\* the resolve / reject arguments of the constructor, as seen from outside
Resolve(v) ==
  /\ calls' = Append(calls, [fn |-> "resolve", arg |-> v])
  /\ promise' = Settle(promise, "fulfilled", v)

Reject(v) ==
  /\ calls' = Append(calls, [fn |-> "reject", arg |-> v])
  /\ promise' = Settle(promise, "rejected", v)

(***************************************************************************)
(* Contract.once / Contract.off of the entry point (contract/contract.ts   *)
(* is not part of the sources): once registers the listener until the      *)
(* first delivery, off removes it.                                          *)
(***************************************************************************)
ContractOnce(s) == TRUE
ContractOff(s) == FALSE

\* stop(): this.entryPoint?.off('UserOperationEvent', this.boundListener)
Stop(s) == IF entryPoint = Null THEN s ELSE ContractOff(s)

(***************************************************************************)
(* queryFilter(filter, 'latest'): the candidate events of the latest block *)
(***************************************************************************)
RECURSIVE EventsAt(_, _)
EventsAt(log, b) ==
  IF log = <<>> THEN <<>>
  ELSE IF Head(log).block = b
       THEN <<Head(log).ev>> \o EventsAt(Tail(log), b)
       ELSE EventsAt(Tail(log), b)

QueryLatest == EventsAt(chain, head)

(***************************************************************************)
(* listenerCallback, first part (lines 304-316): up to the first await.    *)
(***************************************************************************)
ListenerEntry(e) ==
  IF ~HasArgs(e) THEN "returned"
  ELSE IF UserOpHashOf(e) # TrackedHash THEN "returned"
  ELSE "receipt"

NewCb(e) == [ev |-> e, pc |-> ListenerEntry(e), reason |-> Null]

\* the log with the invocation of listenerCallback(e) added
Invoked(log, e) == Append(log, [fn |-> "listenerCallback", arg |-> e])

(***************************************************************************)
(* The constructor and start().                                            *)
(***************************************************************************)
\* a constructor that never arms the timeout timer
Construct_NoTimer(ep, t) ==
  /\ ~constructed
  /\ constructed' = TRUE
  /\ entryPoint' = ep
  /\ timeout' = t
  /\ timer' = timer

\* lines 267-282: binds the listener and arms the timeout timer
Construct(ep, t) ==
  /\ ~constructed
  /\ constructed' = TRUE
  /\ entryPoint' = ep
  /\ timeout' = t
  /\ timer' = "armed"

\* lines 284-297: builds the filter (throws on a null entry point) and
\* schedules the historical query
StartBody(ep) ==
  /\ started' = TRUE
  /\ IF ep = Null
     THEN startThrew' = TRUE /\ startTimer' = startTimer
     ELSE startThrew' = startThrew /\ startTimer' = "armed"

\* new UserOperationEventListener(resolve, reject, ep, sender, hash, nonce, t)
NewListener(ep, t) ==
  /\ Construct(ep, t)
  /\ UNCHANGED <<sameTick, started, startThrew, startTimer, query, queryRes, sub,
                 cbs, calls, resolved, promise, chain, head>>
  /\ UNCHANGED pipeVars

\* new UserOperationEventListener(...).start() in one tick
NewListenerAndStart(ep, t) ==
  /\ Construct(ep, t)
  /\ StartBody(ep)
  /\ sameTick' = TRUE
  /\ UNCHANGED <<query, queryRes, sub, cbs, calls, resolved, promise, chain, head>>
  /\ UNCHANGED pipeVars

\* start() called in a later tick
Start ==
  /\ constructed /\ ~started
  /\ StartBody(entryPoint)
  /\ UNCHANGED <<constructed, entryPoint, timeout, sameTick, timer, query, queryRes,
                 sub, cbs, calls, resolved, promise, chain, head>>
  /\ UNCHANGED pipeVars

\* Erc4337Provider.getTransactionReceipt (lines 249-257): a promise whose
\* executor builds a tracker on a null entry point and starts it; the
\* executor's exception rejects the promise
GetTransactionReceipt ==
  /\ Construct(Null, Null)
  /\ StartBody(Null)
  /\ sameTick' = TRUE
  /\ promise' = [state |-> "rejected", value |-> "TypeError"]
  /\ UNCHANGED <<query, queryRes, sub, cbs, calls, resolved, chain, head>>
  /\ UNCHANGED pipeVars

(***************************************************************************)
(* The two timers.  Timers armed in the same tick fire in the order of     *)
(* their delays (the earlier armed first on a tie).                         *)
(***************************************************************************)
TimerBeforeStart == TimeoutMs(timeout) <= StartDelay

\* lines 278-281: stop(); reject(new Error('Timed out'))
TimerFire ==
  /\ timer = "armed"
  /\ (sameTick /\ startTimer = "armed") => TimerBeforeStart
  /\ timer' = "fired"
  /\ sub' = Stop(sub)
  /\ Reject("Timed out")
  /\ UNCHANGED <<constructed, entryPoint, timeout, sameTick, started, startThrew,
                 startTimer, query, queryRes, cbs, resolved, chain, head>>
  /\ UNCHANGED pipeVars

\* lines 289-290: the callback of start() sends the historical query
StartFire ==
  /\ startTimer = "armed"
  /\ (sameTick /\ timer = "armed") => ~TimerBeforeStart
  /\ startTimer' = "fired"
  /\ query' = "sent"
  /\ UNCHANGED <<constructed, entryPoint, timeout, sameTick, started, startThrew,
                 timer, queryRes, sub, cbs, calls, resolved, promise, chain, head>>
  /\ UNCHANGED pipeVars

(***************************************************************************)
(* The historical query.                                                   *)
(***************************************************************************)
\* the node evaluates the query on its latest block
QueryServe ==
  /\ query = "sent"
  /\ query' = "served"
  /\ queryRes' = QueryLatest
  /\ UNCHANGED <<constructed, entryPoint, timeout, sameTick, started, startThrew,
                 timer, startTimer, sub, cbs, calls, resolved, promise, chain, head>>
  /\ UNCHANGED pipeVars

\* an answer that is handled and also followed by the subscription
QueryReturn_AlsoSubscribes ==
  /\ query = "served"
  /\ query' = "done"
  /\ sub' = ContractOnce(sub)
  /\ IF Len(queryRes) > 0
     THEN /\ cbs' = Append(cbs, NewCb(queryRes[1]))
          /\ calls' = Invoked(calls, queryRes[1])
     ELSE UNCHANGED <<cbs, calls>>
  /\ UNCHANGED <<constructed, entryPoint, timeout, sameTick, started, startThrew,
                 timer, startTimer, queryRes, resolved, promise, chain, head>>
  /\ UNCHANGED pipeVars

\* lines 291-295: the answer arrives
QueryReturn ==
  /\ query = "served"
  /\ query' = "done"
  /\ IF Len(queryRes) > 0
     THEN /\ cbs' = Append(cbs, NewCb(queryRes[1]))
          /\ calls' = Invoked(calls, queryRes[1])
          /\ sub' = sub
     ELSE /\ sub' = ContractOnce(sub)
          /\ UNCHANGED <<cbs, calls>>
  /\ UNCHANGED <<constructed, entryPoint, timeout, sameTick, started, startThrew,
                 timer, startTimer, queryRes, resolved, promise, chain, head>>
  /\ UNCHANGED pipeVars

\* line 290: queryFilter rejects; the async callback ends there
QueryFail ==
  /\ query \in {"sent", "served"}
  /\ query' = "failed"
  /\ UNCHANGED <<constructed, entryPoint, timeout, sameTick, started, startThrew,
                 timer, startTimer, queryRes, sub, cbs, calls, resolved, promise,
                 chain, head>>
  /\ UNCHANGED pipeVars

(***************************************************************************)
(* The event source.                                                       *)
(***************************************************************************)
\* a candidate event is emitted in a new latest block; a registered once()
\* listener is called with it and is removed
EmitEvent(e) ==
  /\ Len(chain) < MaxEvents
  /\ head' = head + 1
  /\ chain' = Append(chain, [ev |-> e, block |-> head + 1, late |-> timer = "fired"])
  /\ IF sub
     THEN /\ sub' = FALSE
          /\ cbs' = Append(cbs, NewCb(e))
          /\ calls' = Invoked(calls, e)
     ELSE UNCHANGED <<sub, cbs, calls>>
  /\ UNCHANGED <<constructed, entryPoint, timeout, sameTick, started, startThrew,
                 timer, startTimer, query, queryRes, resolved, promise>>
  /\ UNCHANGED pipeVars

\* a block without candidate events is mined
MineBlock ==
  /\ head < MaxEvents + MaxBlocks
  /\ head' = head + 1
  /\ UNCHANGED <<constructed, entryPoint, timeout, sameTick, started, startThrew,
                 timer, startTimer, query, queryRes, sub, cbs, calls, resolved,
                 promise, chain>>
  /\ UNCHANGED pipeVars

(***************************************************************************)
(* listenerCallback after its awaits.                                      *)
(***************************************************************************)
\* lines 316-327: event.getTransactionReceipt() returns; on success
\* stop(); resolve(transactionReceipt); resolved = true
ReceiptReturn(i) ==
  /\ cbs[i].pc = "receipt"
  /\ IF ~SuccessOf(cbs[i].ev)
     THEN /\ cbs' = [cbs EXCEPT ![i].pc = "reason"]
          /\ UNCHANGED <<sub, calls, resolved, promise>>
     ELSE /\ sub' = Stop(sub)
          /\ Resolve("receipt")
          /\ resolved' = TRUE
          /\ cbs' = [cbs EXCEPT ![i].pc = "done"]
  /\ UNCHANGED <<constructed, entryPoint, timeout, sameTick, started, startThrew,
                 timer, startTimer, query, queryRes, chain, head>>
  /\ UNCHANGED pipeVars

\* line 316: event.getTransactionReceipt() rejects
ReceiptFail(i) ==
  /\ cbs[i].pc = "receipt"
  /\ cbs' = [cbs EXCEPT ![i].pc = "threw"]
  /\ UNCHANGED <<constructed, entryPoint, timeout, sameTick, started, startThrew,
                 timer, startTimer, query, queryRes, sub, calls, resolved, promise,
                 chain, head>>
  /\ UNCHANGED pipeVars

\* lines 333-343: the log after extractFailureReason found r (or nothing)
AfterReason(log, r) ==
  IF r # Null THEN Append(log, [fn |-> "reject", arg |-> r]) ELSE log

\* lines 323-327, 333-343: the revert-reason query returns its first event
\* (r) or nothing (Null); then listenerCallback runs to its end
ReasonReturn(i, r) ==
  /\ cbs[i].pc = "reason"
  /\ sub' = Stop(sub)
  /\ calls' = Append(AfterReason(calls, r), [fn |-> "resolve", arg |-> "receipt"])
  /\ promise' = Settle(IF r # Null THEN Settle(promise, "rejected", r) ELSE promise,
                        "fulfilled", "receipt")
  /\ resolved' = TRUE
  /\ cbs' = [cbs EXCEPT ![i].pc = "done", ![i].reason = r]
  /\ UNCHANGED <<constructed, entryPoint, timeout, sameTick, started, startThrew,
                 timer, startTimer, query, queryRes, chain, head>>
  /\ UNCHANGED pipeVars

\* line 333: the revert-reason query rejects
ReasonFail(i) ==
  /\ cbs[i].pc = "reason"
  /\ cbs' = [cbs EXCEPT ![i].pc = "threw"]
  /\ UNCHANGED <<constructed, entryPoint, timeout, sameTick, started, startThrew,
                 timer, startTimer, query, queryRes, sub, calls, resolved, promise,
                 chain, head>>
  /\ UNCHANGED pipeVars

(***************************************************************************)
(* JavaScript values: a property is absent, or holds undefined, null, a    *)
(* bigint / number, a hex string made of a number, another string, or a    *)
(* boolean.                                                                *)
(***************************************************************************)
Absent == <<>>
Undefined == <<"undefined">>
JsonNull == <<"null">>
Num(n) == <<"num", n>>
Hex(n) == <<"hex", n>>
Str(s) == <<"str", s>>
Bool(b) == <<"bool", b>>
\* v == null
IsNullish(v) == v \in {Absent, Undefined, JsonNull}
IsString(v) == ~IsNullish(v) /\ v[1] \in {"str", "hex"}

\* lines 19-26
toJson(value) ==
  IF IsNullish(value) THEN JsonNull
  ELSE IF IsString(value) THEN value
  ELSE Hex(value[2])

\* String.prototype.toLowerCase on the addresses of the model
ToLowerCase(s) ==
  CASE s = "0xAbC" -> "0xabc"
    [] s = "0xABC" -> "0xabc"
    [] s = "0xF00" -> "0xf00"
    [] s = "0xEeA" -> "0xeea"
    [] s = "0xEeB" -> "0xeeb"
    [] OTHER -> s

(***************************************************************************)
(* UserOperation (lines 45-82).                                            *)
(***************************************************************************)
OpFields == {"sender", "nonce", "initCode", "callData", "maxFeePerGas",
             "maxPriorityFeePerGas", "callGasLimit", "verificationGasLimit",
             "preVerificationGas", "paymasterAndData", "signature"}

\* an object without own properties
NoFields == [f \in OpFields |-> Absent]

\* lines 58-61: Object.assign(this, userOperation)
NewUserOperation(userOperation) ==
  [f \in OpFields |-> userOperation[f]]

\* lines 63-81: the own properties, the six numeric ones through toJson
ToJSON(op) ==
  [op EXCEPT !.nonce = toJson(op.nonce),
             !.maxFeePerGas = toJson(op.maxFeePerGas),
             !.maxPriorityFeePerGas = toJson(op.maxPriorityFeePerGas),
             !.callGasLimit = toJson(op.callGasLimit),
             !.verificationGasLimit = toJson(op.verificationGasLimit),
             !.preVerificationGas = toJson(op.preVerificationGas)]

(***************************************************************************)
(* The collaborators: what the wallet delegate, the bundler and the        *)
(* execution-layer node answer.                                            *)
(***************************************************************************)
DelegateAddress == "0xAbC"
DelegateInitCode == Str("0xinit")
DelegateCallData == Str("0xcalldata")
DelegateNonce == Num(0)
DelegatePaymasterAndData == Str("0xpaymaster")
DelegatePaymasterAndDataForEstimateGas == Str("0xpaymasterForEstimate")
DelegateSignatureForEstimateGas == Str("0xsignatureForEstimate")
DelegateSignature == Str("0xsignature")
UserOpHashOfBundler == Str("0xuserOpHash")

\* the lists eth_supportedEntryPoints may answer
EntryPointLists == {<<>>, <<"0xEeA">>, <<"0xEeA", "0xEeB">>}
\* the entryPoint argument of estimateUserOperationGas / sendUserOperation
EntryPointCallArgs == {Absent, Str("0xeea"), Str("0xEeB")}

\* provider.getFeeData()
FeeData == [maxFeePerGas |-> Num(100), maxPriorityFeePerGas |-> Num(2)]

\* the answers of eth_estimateUserOperationGas (lines 84-96): with
\* verificationGasLimit, or with the older name verificationGas
EstimationResponses ==
  { [callGasLimit |-> Num(30), preVerificationGas |-> Num(20),
     verificationGasLimit |-> Num(10), verificationGas |-> Absent],
    [callGasLimit |-> Num(30), preVerificationGas |-> Num(20),
     verificationGasLimit |-> Absent, verificationGas |-> Num(10)] }

\* the transaction requests callers pass
NoRequest == [to |-> Absent, from |-> Absent, maxFeePerGas |-> Absent,
              maxPriorityFeePerGas |-> Absent, gasPrice |-> Absent]
Requests ==
  { [NoRequest EXCEPT !.to = Str("0xD11")],
    NoRequest,
    [NoRequest EXCEPT !.to = Str("0xD11"), !.maxFeePerGas = Num(7),
                      !.maxPriorityFeePerGas = Num(3)],
    [NoRequest EXCEPT !.to = Str("0xD11"), !.gasPrice = Num(5)],
    [NoRequest EXCEPT !.to = Str("0xD11"), !.maxFeePerGas = Num(7)],
    [NoRequest EXCEPT !.to = Str("0xD11"), !.from = Str("0xabc")],
    [NoRequest EXCEPT !.to = Str("0xD11"), !.from = Str("0xF00")] }

\* the objects a caller builds a UserOperation from itself: a complete
\* unsigned one and a signed one
CallerOperations ==
  { [NoFields EXCEPT !.sender = Str(DelegateAddress), !.nonce = Num(0),
                     !.initCode = Str("0x"), !.callData = Str("0xcalldata"),
                     !.maxFeePerGas = Num(7), !.maxPriorityFeePerGas = Num(3),
                     !.callGasLimit = Num(30), !.verificationGasLimit = Num(10),
                     !.preVerificationGas = Num(20),
                     !.paymasterAndData = Str("0x")],
    [NoFields EXCEPT !.sender = Str(DelegateAddress), !.nonce = Num(0),
                     !.initCode = Str("0x"), !.callData = Str("0xcalldata"),
                     !.maxFeePerGas = Num(7), !.maxPriorityFeePerGas = Num(3),
                     !.callGasLimit = Num(30), !.verificationGasLimit = Num(10),
                     !.preVerificationGas = Num(20),
                     !.paymasterAndData = Str("0x"),
                     !.signature = Str("0xcallersignature")] }

\* the objects a caller may build a UserOperation from when it leaves
\* optional fields out (UserOperationInterface, lines 28-43) or, for the
\* signature, passes undefined
JsonOperations ==
  { [NoFields EXCEPT !.sender = Str(DelegateAddress), !.nonce = Num(0),
                     !.initCode = Str("0x"), !.callData = Str("0xcalldata"),
                     !.maxFeePerGas = Num(7), !.maxPriorityFeePerGas = Num(3),
                     !.callGasLimit = c, !.verificationGasLimit = v,
                     !.preVerificationGas = g, !.paymasterAndData = d,
                     !.signature = s] :
      c \in {Absent, Num(30)}, v \in {Absent, Num(10)}, g \in {Absent, Num(20)},
      d \in {Absent, Str("0x")},
      s \in {Absent, Undefined, Str("0xcallersignature")} }

NoEstimation == [callGasLimit |-> Absent, preVerificationGas |-> Absent,
                 verificationGasLimit |-> Absent, verificationGas |-> Absent]

\* how many UserOperation instances the callers build themselves
MaxCallerOps == 1

\* the placeholder gas limits, lines 213-215
PlaceholderCallGasLimit == 1000000
PlaceholderPreVerificationGas == 0
PlaceholderVerificationGasLimit == 1000000

(***************************************************************************)
(* A call in progress.  st is the part of the state a call reads and       *)
(* writes while it runs between two answers of a collaborator:             *)
(* [pr: the call, ops, sep: supportedEntryPoints, icd: _isCodeDeployed].   *)
(* pr.uo is the index in ops of the operation the caller passed, or 0 when *)
(* the call works on the operation it built itself, pr.op.                 *)
(* fail names the collaborator method that fails in this run ("none": no   *)
(* method fails).                                                          *)
(***************************************************************************)
IdleProc ==
  [api |-> "idle", pc |-> "idle", stage |-> "none", tx |-> NoRequest, uo |-> 0,
   op |-> NoFields,
   epArg |-> Absent, eps |-> <<>>, callData |-> Absent, draft |-> NoFields,
   draftEP |-> Absent, signed |-> NoFields, sent |-> NoFields, sentEP |-> Absent,
   json |-> NoFields, address |-> Absent, log |-> <<>>, failed |-> "none",
   est |-> NoEstimation, result |-> Absent, error |-> "none"]

Running(st) == st.pr.error = "none" /\ st.pr.pc = "run"

\* an exception ends the call
Throw(st, err) ==
  IF Running(st) THEN [st EXCEPT !.pr.error = err, !.pr.pc = "done"] ELSE st

\* the call returns v
Return(st, v) ==
  IF Running(st) THEN [st EXCEPT !.pr.result = v, !.pr.pc = "done"] ELSE st

\* a request whose failure is caught and ignored: the call goes on
Ext_Swallowed(st, method, fail) ==
  IF ~Running(st) THEN st
  ELSE IF method = fail
       THEN [st EXCEPT !.pr.log = Append(@, method), !.pr.failed = method]
       ELSE [st EXCEPT !.pr.log = Append(@, method)]

\* a request to a collaborator whose answer the call takes at once; when
\* the collaborator fails (pr.failed names it) the awaiting call throws
Ext(st, method, fail) ==
  IF ~Running(st) THEN st
  ELSE IF method = fail
       THEN [st EXCEPT !.pr.log = Append(@, method), !.pr.error = "collaborator",
                       !.pr.failed = method, !.pr.pc = "done"]
       ELSE [st EXCEPT !.pr.log = Append(@, method)]

\* a request whose answer arrives in a later step: the call waits at pc
Await(st, method, pc) ==
  IF Running(st) THEN [st EXCEPT !.pr.log = Append(@, method), !.pr.pc = pc] ELSE st

\* a write to a field of the call's operation
SetOp(st, f, v) ==
  IF ~Running(st) THEN st
  ELSE IF st.pr.uo = 0 THEN [st EXCEPT !.pr.op[f] = v]
  ELSE [st EXCEPT !.ops[st.pr.uo][f] = v]

TheOp(st) == IF st.pr.uo = 0 THEN st.pr.op ELSE st.ops[st.pr.uo]

\* the error messages of the pipeline
ErrNoTo == "no to"
ErrFromMismatch == "transaction from mismatch"
ErrMultipleEntryPoints == "bundler supports multiple EntryPoints - must specify one to use"
ErrNoEntryPoints == "bundler reported no supported EntryPoints - use different bundler URL"
ErrUnsupportedEntryPoint == "the EntryPoint is not supported by this bundler"
ErrAlreadySigned == "passed UserOperation already signed"
ErrNotSigned == "passed UserOperation is not signed"
ErrOneAddress == "ERC-4337 Signer only controls one address"
ErrAddressMismatch == "address mismatch"

\* toBigInt of a number
toBigInt(v) == Num(v[2])

\* a membership test that compares the addresses as they are written
Supported_CaseSensitive(list, ep) ==
  \E k \in DOMAIN list : list[k] = ep

\* supportedEntryPoints.map(it => it.toLowerCase()).includes(entryPoint.toLowerCase())
Supported(list, ep) ==
  \E k \in DOMAIN list : ToLowerCase(list[k]) = ToLowerCase(ep)

\* a check that lets any list pass
NotSingle_Never(list) == FALSE

\* line 201: supportedEntryPoints.length !== 1
NotSingle(list) == Len(list) # 1

\* const [entryPoint] = list, supportedEntryPoints?.[0]
FirstOf(list) == IF Len(list) >= 1 THEN Str(list[1]) ELSE Undefined

\* a provider that never finds its list of entry points stored
EntryPointsKnown_Never(st) == FALSE

\* line 227: this.supportedEntryPoints != null
EntryPointsKnown(st) == st.sep.cached

\* a sendUserOperation that dispatches without looking at the signature
SendUserOperation_NoCheck(st, ep) ==
  IF ~Running(st) THEN st
  ELSE Await([st EXCEPT !.pr.sent = ToJSON(TheOp(st)), !.pr.sentEP = ep],
             "provider.eth_sendUserOperation", "sending")

(***************************************************************************)
(* Erc4337Signer.sendUserOperation (lines 496-502).  provider.send hands   *)
(* the request to the provider's ethereumRpcProvider (lines 151-154).      *)
(***************************************************************************)
SendUserOperation(st, ep) ==
  IF ~Running(st) THEN st
  ELSE IF IsNullish(TheOp(st).signature) THEN Throw(st, ErrNotSigned)
  ELSE Await([st EXCEPT !.pr.sent = ToJSON(TheOp(st)), !.pr.sentEP = ep],
             "provider.eth_sendUserOperation", "sending")

\* a sendTransaction that passes no entry point on
SendB_NoEntryPoint(st) == SendUserOperation(st, Undefined)

\* sendTransaction, lines 492-493, once the list of entry points is there
SendB(st) == SendUserOperation(st, FirstOf(st.pr.eps))

\* Erc4337Signer.signUserOperation (lines 504-509): an exception on a
\* signed operation, else the delegate's signUserOp; nothing is stored on
\* the operation (pr.signed keeps what the delegate was given to sign)
SignUserOperation(st, fail) ==
  IF ~Running(st) THEN st
  ELSE IF ~IsNullish(TheOp(st).signature) THEN Throw(st, ErrAlreadySigned)
  ELSE Ext([st EXCEPT !.pr.signed = TheOp(st)], "delegate.signUserOp", fail)

\* a sendTransaction that asks for the paymaster data once more after signing
SendA_PaymasterAfterSigning(st, fail) ==
  LET s1 == SignUserOperation(st, fail)
      s2 == SetOp(s1, "signature", DelegateSignature)
      s3 == SetOp(Ext(s2, "delegate.getPaymasterAndData", fail),
                  "paymasterAndData", Str("0xpaymaster2"))
  IN IF ~Running(s3) THEN s3
     ELSE IF EntryPointsKnown(s3) THEN SendB([s3 EXCEPT !.pr.eps = s3.sep.list])
     ELSE Await([s3 EXCEPT !.pr.stage = "send"],
                "bundler.eth_supportedEntryPoints", "fetchEPs")

\* sendTransaction, lines 491-493
SendA(st, fail) ==
  LET s1 == SignUserOperation(st, fail)
      s2 == SetOp(s1, "signature", DelegateSignature)
  IN IF ~Running(s2) THEN s2
     ELSE IF EntryPointsKnown(s2) THEN SendB([s2 EXCEPT !.pr.eps = s2.sep.list])
     ELSE Await([s2 EXCEPT !.pr.stage = "send"],
                "bundler.eth_supportedEntryPoints", "fetchEPs")

(***************************************************************************)
(* Erc4337Provider.estimateUserOperationGas (lines 197-223).               *)
(***************************************************************************)
\* SignDraft with the placeholder signature stored on the operation passed
\* in instead of the copy
SignDraft_OnOriginal(st, userOpCopy) ==
  IF ~Running(st) THEN st
  ELSE IF st.pr.uo = 0
  THEN [st EXCEPT !.pr.draft = userOpCopy,
                  !.pr.op.signature = DelegateSignatureForEstimateGas]
  ELSE [st EXCEPT !.pr.draft = userOpCopy,
                  !.ops[st.pr.uo].signature = DelegateSignatureForEstimateGas]

\* line 221: userOpCopy.signature = the delegate's placeholder signature;
\* the call keeps userOpCopy in pr.draft
SignDraft(st, userOpCopy) ==
  IF ~Running(st) THEN st
  ELSE [st EXCEPT !.pr.draft =
          [userOpCopy EXCEPT !.signature = DelegateSignatureForEstimateGas]]

\* lines 199, 206: the entry point passed in, else the first of the list
ChosenEntryPoint(st) ==
  IF IsNullish(st.pr.epArg) THEN FirstOf(st.pr.eps) ELSE st.pr.epArg

\* lines 199-211: the entry point is resolved and verified (line 211,
\* verifyEntryPointSupported, on the cached list)
ResolveEntryPoint(st) ==
  IF ~Running(st) THEN st
  ELSE IF IsNullish(st.pr.epArg) /\ NotSingle(st.pr.eps)
  THEN Throw(st, ErrMultipleEntryPoints)
  ELSE IF IsNullish(ChosenEntryPoint(st)) THEN Throw(st, ErrNoEntryPoints)
  ELSE IF ~Supported(st.sep.list, ChosenEntryPoint(st)[2])
  THEN Throw(st, ErrUnsupportedEntryPoint)
  ELSE st

\* lines 213-215: the placeholders are written to the operation passed in
SetPlaceholders(st) ==
  SetOp(SetOp(SetOp(st,
    "callGasLimit", Num(PlaceholderCallGasLimit)),
    "preVerificationGas", Num(PlaceholderPreVerificationGas)),
    "verificationGasLimit", Num(PlaceholderVerificationGasLimit))

\* lines 216-222: the draft is built, signed and sent
EstimateC(s1, fail) ==
  IF ~Running(s1) THEN s1
  ELSE
    LET ask == IsNullish(TheOp(s1).paymasterAndData)
        s2 == IF ask
              THEN Ext(s1, "delegate.getPaymasterAndDataForEstimateGas", fail)
              ELSE s1
        paymasterAndData ==
          IF ask THEN DelegatePaymasterAndDataForEstimateGas
          ELSE TheOp(s1).paymasterAndData
        copy == NewUserOperation(
                  [ToJSON(TheOp(s1)) EXCEPT !.paymasterAndData = paymasterAndData])
        s3 == Ext(s2, "delegate.getSignatureForEstimateGas", fail)
        s4 == SignDraft(s3, copy)
        \* line 222: the request carries userOpCopy.toJSON() and entryPoint
        s5 == IF Running(s4)
              THEN [s4 EXCEPT !.pr.draft = ToJSON(@),
                              !.pr.draftEP = ChosenEntryPoint(s4)]
              ELSE s4
    IN Await(s5, "bundler.eth_estimateUserOperationGas", "estimating")

\* an estimation that writes the placeholders before it has its entry point
EstimateB_PlaceholdersFirst(st, fail) ==
  EstimateC(ResolveEntryPoint(SetPlaceholders(st)), fail)

\* lines 199-222, once the list of line 198 is there (st.pr.eps)
EstimateB(st, fail) ==
  EstimateC(SetPlaceholders(ResolveEntryPoint(st)), fail)

\* line 198: getSupportedEntryPoints (lines 225-230): the cached list, or a
\* request to the bundler
EstimateA(st, fail) ==
  IF ~Running(st) THEN st
  ELSE IF EntryPointsKnown(st) THEN EstimateB([st EXCEPT !.pr.eps = st.sep.list], fail)
  ELSE Await(st, "bundler.eth_supportedEntryPoints", "fetchEPs")

(***************************************************************************)
(* Erc4337Signer.populateUserOperation (lines 431-477) and what its        *)
(* callers do with the operation.                                          *)
(***************************************************************************)
\* the end of populateUserOperation: the caller of the API has the
\* operation, sendTransaction signs and sends it (lines 491-493),
\* estimateGas estimates it once more (line 393)
PopulateDone(st, fail) ==
  IF ~Running(st) THEN st
  ELSE IF st.pr.api = "populateUserOperation"
  THEN Return([st EXCEPT !.ops = Append(@, st.pr.op)], Num(Len(st.ops) + 1))
  ELSE IF st.pr.api = "sendTransaction" THEN SendA(st, fail)
  ELSE EstimateA([st EXCEPT !.pr.stage = "estimate", !.pr.epArg = Absent], fail)

\* lines 475-476
PopulateC(st, fail) ==
  LET s1 == Ext(st, "delegate.getPaymasterAndData", fail)
      s2 == SetOp(s1, "paymasterAndData", DelegatePaymasterAndData)
  IN PopulateDone(s2, fail)

\* lines 465-473: the estimation's answer is stored on the operation
StoreEstimation(st, resp) ==
  SetOp(SetOp(SetOp(st,
    "callGasLimit", resp.callGasLimit),
    "preVerificationGas", resp.preVerificationGas),
    "verificationGasLimit",
    IF resp.verificationGas = Absent THEN Undefined ELSE resp.verificationGas)

\* eth_estimateUserOperationGas answered resp: populateUserOperation goes
\* on at line 470, estimateUserOperationGas and estimateGas return
AfterEstimate(st, resp, fail) ==
  IF ~Running(st) THEN st
  ELSE IF st.pr.stage = "populate"
  THEN PopulateC(StoreEstimation([st EXCEPT !.pr.est = resp], resp), fail)
  ELSE IF st.pr.api = "estimateGas"
  THEN Return([st EXCEPT !.pr.est = resp], resp.callGasLimit)
  ELSE Return([st EXCEPT !.pr.est = resp], Str("UserOperationGasEstimation"))

\* fees taken from the network whatever the request carries
FeeSource_AlwaysFeeData(tx) == "feeData"

\* lines 439-445: where the two fee fields come from
FeeSource(tx) ==
  IF ~IsNullish(tx.maxFeePerGas) /\ ~IsNullish(tx.maxPriorityFeePerGas) THEN "request"
  ELSE IF ~IsNullish(tx.gasPrice) THEN "gasPrice"
  ELSE "feeData"

\* fees resolved field by field: each one from the request when it is
\* there, else from gasPrice, else from the network
ResolveFees_PerField(tx) ==
  [maxFeePerGas |->
     IF ~IsNullish(tx.maxFeePerGas) THEN toBigInt(tx.maxFeePerGas)
     ELSE IF ~IsNullish(tx.gasPrice) THEN toBigInt(tx.gasPrice)
     ELSE FeeData.maxFeePerGas,
   maxPriorityFeePerGas |->
     IF ~IsNullish(tx.maxPriorityFeePerGas) THEN toBigInt(tx.maxPriorityFeePerGas)
     ELSE IF ~IsNullish(tx.gasPrice) THEN toBigInt(tx.gasPrice)
     ELSE FeeData.maxPriorityFeePerGas]

\* lines 437-449: the two fee fields, both from the source FeeSource names
ResolveFees(tx) ==
  IF FeeSource(tx) = "request"
  THEN [maxFeePerGas |-> toBigInt(tx.maxFeePerGas),
        maxPriorityFeePerGas |-> toBigInt(tx.maxPriorityFeePerGas)]
  ELSE IF FeeSource(tx) = "gasPrice"
  THEN [maxFeePerGas |-> toBigInt(tx.gasPrice),
        maxPriorityFeePerGas |-> toBigInt(tx.gasPrice)]
  ELSE FeeData

\* lines 433-473, once isCodeDeployed has its answer
PopulateB(st, fail) ==
  IF ~Running(st) THEN st
  ELSE
    LET deployed == st.icd = Bool(TRUE)
        \* lines 407-413
        s1 == IF deployed THEN st ELSE Ext(st, "delegate.getInitCode", fail)
        initCode == IF deployed THEN Str("0x") ELSE DelegateInitCode
        \* lines 434-435
        s2 == Ext(Ext(s1, "delegate.getNonce", fail), "delegate.getAddress", fail)
        \* lines 437-449
        tx == st.pr.tx
        explicit == FeeSource(tx) = "request"
        legacy == FeeSource(tx) = "gasPrice"
        s3 == IF explicit \/ legacy THEN s2 ELSE Ext(s2, "provider.getFeeData", fail)
        maxFeePerGas == ResolveFees(tx).maxFeePerGas
        maxPriorityFeePerGas == ResolveFees(tx).maxPriorityFeePerGas
        \* lines 451-458
        userOperation ==
          NewUserOperation([NoFields EXCEPT
            !.callData = st.pr.callData, !.initCode = initCode,
            !.nonce = DelegateNonce, !.sender = Str(DelegateAddress),
            !.maxFeePerGas = maxFeePerGas,
            !.maxPriorityFeePerGas = maxPriorityFeePerGas])
        s4 == IF Running(s3) THEN [s3 EXCEPT !.pr.op = userOperation] ELSE s3
    IN
    IF ~Running(s4) THEN s4
    \* lines 460-464
    ELSE IF \/ IsNullish(userOperation.callGasLimit)
            \/ IsNullish(userOperation.preVerificationGas)
            \/ IsNullish(userOperation.verificationGasLimit)
    THEN EstimateA([s4 EXCEPT !.pr.stage = "populate", !.pr.epArg = Absent], fail)
    ELSE PopulateC(s4, fail)

\* a test that finds a destination in every request
NoDestination_Never(tx) == FALSE

\* lines 369-370: _to == null
NoDestination(tx) == IsNullish(tx.to)

\* a signer that never finds an answer stored
CodeAnswerKnown_Never(st) == FALSE

\* line 399: this._isCodeDeployed == null decides whether the node is asked
CodeAnswerKnown(st) == ~IsNullish(st.icd)

\* lines 432-433: encodeCalldata (lines 368-377), then getInitCode asks
\* isCodeDeployed (lines 398-405), which asks the node unless it has an answer
PopulateA(st, fail) ==
  IF ~Running(st) THEN st
  ELSE IF NoDestination(st.pr.tx) THEN Throw(st, ErrNoTo)
  ELSE
    LET s1 == Ext(st, "delegate.encodeCalldata", fail)
        s2 == IF Running(s1) THEN [s1 EXCEPT !.pr.callData = DelegateCallData] ELSE s1
    IN IF ~CodeAnswerKnown(s2)
       THEN Await(Ext(s2, "delegate.getAddress", fail), "provider.getCode", "getCode")
       ELSE PopulateB(s2, fail)

\* Erc4337Signer.estimateGas, lines 384-392
EstimateGasA(st, fail) ==
  LET s1 == Ext(st, "delegate.getAddress", fail)
      from == st.pr.tx.from
  IN IF ~Running(s1) THEN s1
     ELSE IF ~IsNullish(from) /\ ToLowerCase(from[2]) # ToLowerCase(DelegateAddress)
     THEN Throw(s1, ErrFromMismatch)
     ELSE PopulateA(s1, fail)

(***************************************************************************)
(* The API calls and the answers of the collaborators.                     *)
(***************************************************************************)
\* the collaborator methods a call takes the answer of within a step
FailPoints ==
  {"none", "delegate.encodeCalldata", "delegate.getAddress", "delegate.getInitCode",
   "delegate.getNonce", "provider.getFeeData",
   "delegate.getPaymasterAndDataForEstimateGas",
   "delegate.getSignatureForEstimateGas", "delegate.getPaymasterAndData",
   "delegate.signUserOp"}

St(p) ==
  [pr |-> procs[p], ops |-> ops, sep |-> supportedEntryPoints,
   icd |-> isCodeDeployedField]

Apply(p, st) ==
  /\ procs' = [procs EXCEPT ![p] = st.pr]
  /\ ops' = st.ops
  /\ supportedEntryPoints' = st.sep
  /\ isCodeDeployedField' = st.icd

\* caller p starts a call of api
CanCall(p) == procs[p].pc \in {"idle", "done"} /\ nCalls < MaxCalls
Begin(p, api) == [St(p) EXCEPT !.pr = [IdleProc EXCEPT !.api = api, !.pc = "run"]]
\* the call of p goes on with the answer it waited for
Resumed(p) == [St(p) EXCEPT !.pr.pc = "run"]

\* signer.sendTransaction(tx), line 490
CallSendTransaction(p, tx, fail) ==
  /\ CanCall(p)
  /\ Apply(p, PopulateA([Begin(p, "sendTransaction") EXCEPT !.pr.tx = tx], fail))
  /\ nCalls' = nCalls + 1
  /\ UNCHANGED <<codeAtSender, trackerVars>>

\* signer.populateUserOperation(tx)
CallPopulateUserOperation(p, tx, fail) ==
  /\ CanCall(p)
  /\ Apply(p, PopulateA([Begin(p, "populateUserOperation") EXCEPT !.pr.tx = tx], fail))
  /\ nCalls' = nCalls + 1
  /\ UNCHANGED <<codeAtSender, trackerVars>>

\* signer.estimateGas(tx)
CallEstimateGas(p, tx, fail) ==
  /\ CanCall(p)
  /\ Apply(p, EstimateGasA([Begin(p, "estimateGas") EXCEPT !.pr.tx = tx], fail))
  /\ nCalls' = nCalls + 1
  /\ UNCHANGED <<codeAtSender, trackerVars>>

\* provider.estimateUserOperationGas(ops[i], ep)
CallEstimateUserOperationGas(p, i, ep, fail) ==
  /\ CanCall(p)
  /\ i \in DOMAIN ops
  /\ Apply(p, EstimateA([Begin(p, "estimateUserOperationGas") EXCEPT
                           !.pr.uo = i, !.pr.epArg = ep, !.pr.stage = "estimate"],
                        fail))
  /\ nCalls' = nCalls + 1
  /\ UNCHANGED <<codeAtSender, trackerVars>>

\* provider.getSupportedEntryPoints(), lines 225-230
CallGetSupportedEntryPoints(p) ==
  /\ CanCall(p)
  /\ LET st == Begin(p, "getSupportedEntryPoints")
     IN Apply(p, IF EntryPointsKnown(st)
                 THEN Return([st EXCEPT !.pr.eps = st.sep.list], Str("list"))
                 ELSE Await(st, "bundler.eth_supportedEntryPoints", "fetchEPs"))
  /\ nCalls' = nCalls + 1
  /\ UNCHANGED <<codeAtSender, trackerVars>>

\* signer.signUserOperation(ops[i]), lines 504-509
CallSignUserOperation(p, i, fail) ==
  /\ CanCall(p)
  /\ i \in DOMAIN ops
  /\ Apply(p, Return(SignUserOperation(
                       [Begin(p, "signUserOperation") EXCEPT !.pr.uo = i], fail),
                     DelegateSignature))
  /\ nCalls' = nCalls + 1
  /\ UNCHANGED <<codeAtSender, trackerVars>>

\* the address arguments of getSigner: none, account indices, strings
SignerAddressArgs ==
  {Absent, Num(0), Num(1), Str("0xAbC"), Str("0xabc"), Str("0xABC"), Str("0xF00")}

\* a comparison of the addresses as they are written
SameAddress_CaseSensitive(a, b) == a = b

\* line 174: signerAddress.toLowerCase() === address.toLowerCase()
SameAddress(a, b) == ToLowerCase(a) = ToLowerCase(b)

\* Erc4337Provider.getSigner (lines 166-179); this.signer is the instance
\* the constructor made (line 149)
GetSigner(st, address, fail) ==
  IF IsNullish(address) THEN Return(st, Str("this.signer"))
  ELSE IF address[1] = "num"
  THEN IF address[2] = 0 THEN Return(st, Str("this.signer"))
       ELSE Throw(st, ErrOneAddress)
  ELSE LET s1 == Ext(st, "delegate.getAddress", fail)
       IN IF SameAddress(DelegateAddress, address[2])
          THEN Return(s1, Str("this.signer"))
          ELSE Throw(s1, ErrAddressMismatch)

\* provider.getSigner(address)
CallGetSigner(p, address, fail) ==
  /\ CanCall(p)
  /\ Apply(p, GetSigner([Begin(p, "getSigner") EXCEPT !.pr.address = address],
                        address, fail))
  /\ nCalls' = nCalls + 1
  /\ UNCHANGED <<codeAtSender, trackerVars>>

\* signer.sendUserOperation(ops[i], ep), lines 496-502
CallSendUserOperation(p, i, ep) ==
  /\ CanCall(p)
  /\ i \in DOMAIN ops
  /\ Apply(p, SendUserOperation(
                [Begin(p, "sendUserOperation") EXCEPT !.pr.uo = i], ep))
  /\ nCalls' = nCalls + 1
  /\ UNCHANGED <<codeAtSender, trackerVars>>

\* ops[i].toJSON() by the caller, lines 63-81
CallToJSON(p, i) ==
  /\ CanCall(p)
  /\ i \in DOMAIN ops
  /\ Apply(p, Return([Begin(p, "toJSON") EXCEPT !.pr.uo = i,
                                               !.pr.json = ToJSON(ops[i])],
                     Str("json")))
  /\ nCalls' = nCalls + 1
  /\ UNCHANGED <<codeAtSender, trackerVars>>

\* new UserOperation(o) by the caller, lines 58-61
CallerNewUserOperation(o) ==
  /\ Len(ops) < MaxCallerOps
  /\ ops' = Append(ops, NewUserOperation(o))
  /\ UNCHANGED <<supportedEntryPoints, isCodeDeployedField, procs, codeAtSender,
                 nCalls, trackerVars>>

\* provider.getCode answers: lines 401-404
GetCodeReturn(p, fail) ==
  /\ procs[p].pc = "getCode"
  /\ Apply(p, PopulateB([Resumed(p) EXCEPT !.icd = Bool(codeAtSender)], fail))
  /\ UNCHANGED <<codeAtSender, nCalls, trackerVars>>

\* eth_supportedEntryPoints answers list: lines 230-232, then the caller
SupportedEntryPointsReturn(p, list, fail) ==
  /\ procs[p].pc = "fetchEPs"
  /\ LET st == [Resumed(p) EXCEPT
                  !.sep = [cached |-> TRUE, list |-> list],
                  !.pr.eps = list]
     IN Apply(p, IF st.pr.api = "getSupportedEntryPoints" THEN Return(st, Str("list"))
                 ELSE IF st.pr.stage = "send" THEN SendB(st)
                 ELSE EstimateB(st, fail))
  /\ UNCHANGED <<codeAtSender, nCalls, trackerVars>>

\* eth_estimateUserOperationGas answers resp
EstimateReturn(p, resp, fail) ==
  /\ procs[p].pc = "estimating"
  /\ Apply(p, AfterEstimate(Resumed(p), resp, fail))
  /\ UNCHANGED <<codeAtSender, nCalls, trackerVars>>

\* eth_sendUserOperation answers the userOpHash
SendReturn(p) ==
  /\ procs[p].pc = "sending"
  /\ Apply(p, Return(Resumed(p), UserOpHashOfBundler))
  /\ UNCHANGED <<codeAtSender, nCalls, trackerVars>>

\* a failing request for the list of entry points that leaves an empty
\* list behind
RequestFails_StoresEmptyList(p) ==
  /\ procs[p].pc \in {"getCode", "fetchEPs", "estimating", "sending"}
  /\ procs' = [procs EXCEPT ![p].pc = "done", ![p].error = "collaborator",
                            ![p].failed = procs[p].log[Len(procs[p].log)]]
  /\ supportedEntryPoints' =
       IF procs[p].pc = "fetchEPs" THEN [cached |-> TRUE, list |-> <<>>]
       ELSE supportedEntryPoints
  /\ UNCHANGED <<isCodeDeployedField, ops, codeAtSender, nCalls, trackerVars>>

\* the request the call waits for fails: the call ends with that error
\* (a rejected await of line 230 skips the assignment of line 231)
RequestFails(p) ==
  /\ procs[p].pc \in {"getCode", "fetchEPs", "estimating", "sending"}
  /\ procs' = [procs EXCEPT ![p].pc = "done", ![p].error = "collaborator",
                            ![p].failed = procs[p].log[Len(procs[p].log)]]
  /\ UNCHANGED <<supportedEntryPoints, isCodeDeployedField, ops, codeAtSender,
                 nCalls, trackerVars>>

\* the account contract is deployed
AccountDeployed ==
  /\ ~codeAtSender
  /\ codeAtSender' = TRUE
  /\ UNCHANGED <<supportedEntryPoints, isCodeDeployedField, ops, procs, nCalls,
                 trackerVars>>

PipeInit ==
  /\ supportedEntryPoints = [cached |-> FALSE, list |-> <<>>]
  /\ isCodeDeployedField = Absent
  /\ ops = <<>>
  /\ procs = [p \in Procs |-> IdleProc]
  /\ codeAtSender = FALSE
  /\ nCalls = 0

PipeNext ==
  \/ \E p \in Sequential, tx \in Requests, f \in FailPoints :
       CallSendTransaction(p, tx, f)
  \/ \E p \in Sequential, tx \in Requests, f \in FailPoints :
       CallPopulateUserOperation(p, tx, f)
  \/ \E p \in Sequential, tx \in Requests, f \in FailPoints : CallEstimateGas(p, tx, f)
  \/ \E p \in Sequential, i \in DOMAIN ops, ep \in EntryPointCallArgs, f \in FailPoints :
       CallEstimateUserOperationGas(p, i, ep, f)
  \/ \E p \in Sequential : CallGetSupportedEntryPoints(p)
  \/ \E p \in Sequential, i \in DOMAIN ops, f \in FailPoints :
       CallSignUserOperation(p, i, f)
  \/ \E p \in Sequential, i \in DOMAIN ops, ep \in EntryPointCallArgs :
       CallSendUserOperation(p, i, ep)
  \/ \E o \in CallerOperations : CallerNewUserOperation(o)
  \/ \E p \in Sequential, f \in FailPoints : GetCodeReturn(p, f)
  \/ \E p \in Sequential, list \in EntryPointLists, f \in FailPoints :
       SupportedEntryPointsReturn(p, list, f)
  \/ \E p \in Sequential, resp \in EstimationResponses, f \in FailPoints :
       EstimateReturn(p, resp, f)
  \/ \E p \in Sequential : SendReturn(p)
  \/ \E p \in Sequential : RequestFails(p)
  \/ AccountDeployed

(***************************************************************************)
(* The tracker's specification.                                            *)
(***************************************************************************)
TrackerInit ==
  /\ constructed = FALSE
  /\ entryPoint = Null
  /\ timeout = Null
  /\ sameTick = FALSE
  /\ started = FALSE
  /\ startThrew = FALSE
  /\ timer = "none"
  /\ startTimer = "none"
  /\ query = "none"
  /\ queryRes = <<>>
  /\ sub = FALSE
  /\ cbs = <<>>
  /\ calls = <<>>
  /\ resolved = FALSE
  /\ promise = NoPromise
  /\ chain = <<>>
  /\ head = 0

Init == TrackerInit /\ PipeInit

Next ==
  \/ \E ep \in EntryPointArgs, t \in TimeoutArgs : NewListener(ep, t)
  \/ \E ep \in EntryPointArgs, t \in TimeoutArgs : NewListenerAndStart(ep, t)
  \/ Start
  \/ GetTransactionReceipt
  \/ TimerFire
  \/ StartFire
  \/ QueryServe
  \/ QueryReturn
  \/ QueryFail
  \/ \E e \in Events : EmitEvent(e)
  \/ MineBlock
  \/ \E i \in DOMAIN cbs : ReceiptReturn(i)
  \/ \E i \in DOMAIN cbs : ReceiptFail(i)
  \/ \E i \in DOMAIN cbs, r \in Reasons \cup {Null} : ReasonReturn(i, r)
  \/ \E i \in DOMAIN cbs : ReasonFail(i)

Spec == Init /\ [][Next]_vars

\* the provider and its signer, used by the callers of Procs
PipeSpec == Init /\ [][PipeNext]_vars

\* the timers of the event loop fire once armed
FairSpec == Spec /\ WF_vars(TimerFire) /\ WF_vars(StartFire)

(***************************************************************************)
(* Concurrent callers of one provider and signer: each caller of Procs may *)
(* start a call while the call of the other waits for an answer (every     *)
(* await of lines 197-233 and 431-502 is a suspension point).  The calls   *)
(* are those that need the list of entry points; no delegate method fails. *)
(***************************************************************************)
RaceRequest == [NoRequest EXCEPT !.to = Str("0xD11")]

RaceNext ==
  \/ \E p \in Procs : CallGetSupportedEntryPoints(p)
  \/ \E p \in Procs, i \in DOMAIN ops, ep \in EntryPointCallArgs :
       CallEstimateUserOperationGas(p, i, ep, "none")
  \/ \E p \in Procs : CallSendTransaction(p, RaceRequest, "none")
  \/ \E o \in CallerOperations : CallerNewUserOperation(o)
  \/ \E p \in Procs : GetCodeReturn(p, "none")
  \/ \E p \in Procs, list \in EntryPointLists :
       SupportedEntryPointsReturn(p, list, "none")
  \/ \E p \in Procs, resp \in EstimationResponses : EstimateReturn(p, resp, "none")
  \/ \E p \in Procs : SendReturn(p)
  \/ \E p \in Procs : RequestFails(p)

RaceSpec == Init /\ [][RaceNext]_vars

(***************************************************************************)
(* UserOperation.toJSON on the operations a caller can build.              *)
(***************************************************************************)
JsonNext ==
  \/ \E o \in JsonOperations : CallerNewUserOperation(o)
  \/ \E p \in Sequential, i \in DOMAIN ops : CallToJSON(p, i)

JsonSpec == Init /\ [][JsonNext]_vars

(***************************************************************************)
(* The callers of Procs ask the provider for its signer.                   *)
(***************************************************************************)
SignerNext ==
  \E p \in Procs, a \in SignerAddressArgs, f \in {"none", "delegate.getAddress"} :
    CallGetSigner(p, a, f)

SignerSpec == Init /\ [][SignerNext]_vars

(***************************************************************************)
(* What the caller has seen: the invocations of resolve and reject, and    *)
(* the outcome the first of them decides.                                  *)
(***************************************************************************)
IsWrite(c) == c.fn \in {"resolve", "reject"}
Writes == SelectSeq(calls, IsWrite)
TimedOutCall == [fn |-> "reject", arg |-> "Timed out"]

Outcome ==
  IF Writes = <<>> THEN "Waiting"
  ELSE IF Writes[1].fn = "resolve" THEN "Resolved"
  ELSE IF Writes[1] = TimedOutCall THEN "TimedOut"
  ELSE "Failed"

\* listenerCallback was called with a settlement event of the tracked
\* identifier at position i of the log, and the timer had not fired then
DeliveredInTime(i) ==
  /\ calls[i].fn = "listenerCallback"
  /\ ListenerEntry(calls[i].arg) = "receipt"
  /\ \A j \in 1..(i - 1) : calls[j] # TimedOutCall

(***************************************************************************)
(* C1: exactly one terminal outcome is written: resolve and reject are     *)
(* invoked once in total, and never again after the first invocation.      *)
(* (Stated as the safety half: there are never two invocations.)           *)
(***************************************************************************)
C1_SingleTerminalWrite == Len(Writes) <= 1

(***************************************************************************)
(* C2: if a settlement event of the tracked identifier is delivered to the *)
(* tracker before the timer fires, the outcome is never TimedOut, also     *)
(* when the timer fires while the receipt or the revert reason is being    *)
(* fetched; it is Resolved or Failed according to that event.              *)
(***************************************************************************)
C2_FirstObservedEventWins ==
  \A i \in DOMAIN calls :
    DeliveredInTime(i) => Outcome # "TimedOut"

(***************************************************************************)
(* C3: once the tracker has reached a terminal outcome, no subscription of *)
(* boundListener is registered and no timer of the tracker is pending.     *)
(***************************************************************************)
C3_ReleasedAfterTerminal ==
  Outcome # "Waiting" => (~sub /\ timer # "armed" /\ startTimer # "armed")

(***************************************************************************)
(* C4: if no settlement event is delivered before the timeout elapses, the *)
(* tracker rejects with 'Timed out' and detaches, so that events emitted   *)
(* afterwards cause no invocation of listenerCallback, resolve or reject.  *)
(***************************************************************************)
C4_TimeoutDetaches ==
  (/\ calls # <<>>
   /\ calls[1] = TimedOutCall
   /\ \A k \in DOMAIN chain : chain[k].late)
  => calls = <<TimedOutCall>>

(***************************************************************************)
(* C5: when a settlement event with success = false is delivered (while    *)
(* the tracker waits) and the revert-reason query finds a reason, the      *)
(* first of resolve / reject to be invoked is reject with that reason.     *)
(***************************************************************************)
C5_FailedCarriesReason ==
  \A i \in DOMAIN calls :
    (/\ DeliveredInTime(i)
     /\ calls[i].arg = "failure"
     /\ \E k \in DOMAIN cbs : cbs[k].reason \in Reasons)
    => \E k \in DOMAIN cbs : Writes[1] = [fn |-> "reject", arg |-> cbs[k].reason]

(***************************************************************************)
(* C6: when a settlement event with success = false is delivered and no    *)
(* revert reason is found, the outcome is still Failed: the tracker never  *)
(* ends in Resolved for an event whose success flag is false.              *)
(***************************************************************************)
C6_FailureNeverResolves ==
  \A k \in DOMAIN cbs :
    (cbs[k].ev = "failure" /\ cbs[k].pc = "done") => Outcome # "Resolved"

(***************************************************************************)
(* C7: every constructed and started tracker eventually has resolve or     *)
(* reject invoked, whatever the event source does (under fairness of the   *)
(* timers only).                                                           *)
(***************************************************************************)
C7_EventuallyTerminal == (constructed /\ started) ~> (Outcome # "Waiting")

\* the timer rejects a started tracker whose historical query never returned
C7_Witness == started /\ query = "sent" /\ Outcome = "TimedOut"

(***************************************************************************)
(* C8: getTransactionReceipt resolves with the receipt once the matching   *)
(* settlement event is observed: as long as the timeout has not elapsed    *)
(* and no failed settlement was emitted, its promise is pending or         *)
(* fulfilled with the receipt.                                             *)
(***************************************************************************)
C8_ReceiptOnceSettled ==
  (/\ promise.state # "none"
   /\ timer = "armed"
   /\ \A k \in DOMAIN chain : chain[k].ev # "failure")
  => promise.state \in {"pending", "fulfilled"}

(***************************************************************************)
(* C9: signing is single-shot: after a successful signUserOperation on an  *)
(* instance, the next signUserOperation on the same instance fails with    *)
(* 'passed UserOperation already signed' and does not call the delegate.   *)
(***************************************************************************)
C9_SigningIsSingleShot ==
  [][\A p \in Procs :
       (/\ procs[p].api = "signUserOperation"
        /\ procs[p].pc = "done"
        /\ procs[p].error = "none"
        /\ nCalls' = nCalls + 1
        /\ procs'[p].api = "signUserOperation"
        /\ procs'[p].uo = procs[p].uo)
       => (procs'[p].error = ErrAlreadySigned /\ procs'[p].log = <<>>)]_vars

(***************************************************************************)
(* C10: estimation never sets or changes the signature of the operation    *)
(* passed to it and stores neither the placeholder signature nor the       *)
(* estimate-time paymaster data on it; the operation populateUserOperation *)
(* builds has no signature at any step and when it is returned.            *)
(***************************************************************************)
C10_EstimationLeavesSignature ==
  [][\A p \in Procs :
       procs'[p] # procs[p] =>
         /\ procs'[p].api = "estimateUserOperationGas" =>
              /\ ops'[procs'[p].uo].signature = ops[procs'[p].uo].signature
              /\ ops'[procs'[p].uo].paymasterAndData
                   = ops[procs'[p].uo].paymasterAndData
         /\ procs'[p].api = "populateUserOperation" =>
              /\ procs'[p].op.signature = Absent
              /\ procs'[p].op.paymasterAndData # DelegatePaymasterAndDataForEstimateGas
         /\ (/\ procs'[p].api = "populateUserOperation"
             /\ procs'[p].pc = "done"
             /\ procs'[p].error = "none") =>
              /\ ops'[procs'[p].result[2]].signature = Absent
              /\ ops'[procs'[p].result[2]].paymasterAndData
                   # DelegatePaymasterAndDataForEstimateGas]_vars

\* populateUserOperation has returned an operation whose draft carried the
\* placeholder signature and the estimate-time paymaster data
C10_Witness ==
  \E p \in Procs :
    /\ procs[p].api = "populateUserOperation"
    /\ procs[p].pc = "done"
    /\ procs[p].error = "none"
    /\ procs[p].draft.signature = DelegateSignatureForEstimateGas
    /\ procs[p].draft.paymasterAndData = DelegatePaymasterAndDataForEstimateGas
    /\ ops[procs[p].result[2]].signature = Absent

(***************************************************************************)
(* C11: the operation populateUserOperation returns has its three          *)
(* gas-limit fields set to what the bundler reported: for a response       *)
(* carrying callGasLimit, verificationGasLimit and preVerificationGas the  *)
(* returned fields equal those values and none of them is unset.           *)
(***************************************************************************)
C11_PopulatedGasLimits ==
  \A p \in Procs :
    (/\ procs[p].api = "populateUserOperation"
     /\ procs[p].pc = "done"
     /\ procs[p].error = "none"
     /\ ~IsNullish(procs[p].est.callGasLimit)
     /\ ~IsNullish(procs[p].est.verificationGasLimit)
     /\ ~IsNullish(procs[p].est.preVerificationGas))
    => LET op == ops[procs[p].result[2]]
       IN /\ op.callGasLimit = procs[p].est.callGasLimit
          /\ op.verificationGasLimit = procs[p].est.verificationGasLimit
          /\ op.preVerificationGas = procs[p].est.preVerificationGas

(***************************************************************************)
(* C12: after estimateUserOperationGas(userOperation) has completed        *)
(* successfully, the gas-limit fields of the operation passed in equal the *)
(* quantities the bundler reported (the verification gas under either of   *)
(* its two names).                                                         *)
(***************************************************************************)
C12_EstimateAppliedBack ==
  \A p \in Procs :
    (/\ procs[p].api = "estimateUserOperationGas"
     /\ procs[p].pc = "done"
     /\ procs[p].error = "none")
    => LET op == ops[procs[p].uo]
           est == procs[p].est
       IN /\ op.callGasLimit = est.callGasLimit
          /\ op.preVerificationGas = est.preVerificationGas
          /\ op.verificationGasLimit \in {est.verificationGasLimit, est.verificationGas}

(***************************************************************************)
(* C13: whenever populateUserOperation builds its operation (in the step   *)
(* of the call when the deployment answer is at hand, else in the step in  *)
(* which getCode answers), initCode is '0x' if bytecode is present at the  *)
(* sender address in that step and the delegate's init code otherwise,     *)
(* also after earlier calls and after a deployment in between.             *)
(***************************************************************************)
C13_InitCodeFollowsDeployment ==
  [][\A p \in Procs :
       (/\ nCalls' = nCalls + 1 \/ procs[p].pc = "getCode"
        /\ procs'[p].api \in {"populateUserOperation", "sendTransaction", "estimateGas"}
        /\ procs'[p] # procs[p]
        /\ ~IsNullish(procs'[p].op.initCode))
       => procs'[p].op.initCode
            = IF codeAtSender THEN Str("0x") ELSE DelegateInitCode]_vars

\* how often method m was requested by the call whose log is log
Requested(log, m) == Cardinality({k \in DOMAIN log : log[k] = m})

(***************************************************************************)
(* C14: once eth_supportedEntryPoints has succeeded, no call of a          *)
(* sequence of calls on the provider requests it again, the stored list    *)
(* never changes, and every later call works with the list fetched first   *)
(* (sendTransaction sends to its first element).                           *)
(***************************************************************************)
C14_EntryPointsFetchedOnce ==
  [][supportedEntryPoints.cached =>
       /\ supportedEntryPoints' = supportedEntryPoints
       /\ \A p \in Procs :
            procs'[p] # procs[p] =>
              /\ Requested(procs'[p].log, "bundler.eth_supportedEntryPoints")
                   = IF nCalls' = nCalls + 1 THEN 0
                     ELSE Requested(procs[p].log, "bundler.eth_supportedEntryPoints")
              /\ procs'[p].eps \in {<<>>, supportedEntryPoints.list}
              /\ (procs'[p].api = "sendTransaction" /\ procs'[p].pc = "sending")
                   => procs'[p].sentEP = FirstOf(supportedEntryPoints.list)]_vars

\* a second call has estimated with the stored list without asking the bundler
C14_Witness ==
  \E p \in Procs :
    /\ nCalls = 2
    /\ supportedEntryPoints.cached
    /\ procs[p].pc = "done"
    /\ procs[p].error = "none"
    /\ procs[p].api \in {"estimateUserOperationGas", "populateUserOperation"}
    /\ Requested(procs[p].log, "bundler.eth_estimateUserOperationGas") = 1
    /\ Requested(procs[p].log, "bundler.eth_supportedEntryPoints") = 0

\* the call of p asked nothing but the list of entry points
OnlyAskedEntryPoints(p) ==
  \A k \in DOMAIN procs[p].log : procs[p].log[k] = "bundler.eth_supportedEntryPoints"

(***************************************************************************)
(* C15: when the list of supported entry points has two or more entries    *)
(* and the caller passes no entry point, estimateUserOperationGas fails    *)
(* with 'bundler supports multiple EntryPoints - must specify one to use', *)
(* without sending eth_estimateUserOperationGas and without calling the    *)
(* delegate.                                                               *)
(***************************************************************************)
C15_AmbiguousEntryPoint ==
  \A p \in Procs :
    (/\ procs[p].api = "estimateUserOperationGas"
     /\ IsNullish(procs[p].epArg)
     /\ Len(procs[p].eps) >= 2)
    => /\ procs[p].pc = "done"
       /\ procs[p].error = ErrMultipleEntryPoints
       /\ OnlyAskedEntryPoints(p)

\* an estimation without entry point has failed on a list of two
C15_Witness ==
  \E p \in Procs :
    /\ procs[p].api = "estimateUserOperationGas"
    /\ IsNullish(procs[p].epArg)
    /\ Len(procs[p].eps) = 2
    /\ procs[p].error = ErrMultipleEntryPoints

(***************************************************************************)
(* C16: when the list of supported entry points is empty and the caller    *)
(* passes no entry point, estimateUserOperationGas fails with 'bundler     *)
(* reported no supported EntryPoints - use different bundler URL', not     *)
(* with the error raised for more than one entry point.                    *)
(***************************************************************************)
C16_NoEntryPoint ==
  \A p \in Procs :
    (/\ procs[p].api = "estimateUserOperationGas"
     /\ IsNullish(procs[p].epArg)
     /\ procs[p].eps = <<>>
     /\ supportedEntryPoints = [cached |-> TRUE, list |-> <<>>]
     /\ procs[p].pc = "done"
     /\ procs[p].error # "collaborator")
    => procs[p].error = ErrNoEntryPoints

\* address ep equals some entry of list when both are written in lower case
InRegistry(list, ep) ==
  \E k \in DOMAIN list : ToLowerCase(list[k]) = ToLowerCase(ep)

(***************************************************************************)
(* C17: estimateUserOperationGas with an explicit entry point goes on to   *)
(* the estimation if and only if the address equals some entry of the      *)
(* stored list, both compared in lower case; otherwise it fails with 'the  *)
(* EntryPoint is not supported by this bundler' and sends no estimation    *)
(* request.                                                                *)
(***************************************************************************)
C17_ExplicitEntryPoint ==
  \A p \in Procs :
    (/\ procs[p].api = "estimateUserOperationGas"
     /\ ~IsNullish(procs[p].epArg)
     /\ supportedEntryPoints.cached
     /\ procs[p].pc \in {"estimating", "done"})
    => IF InRegistry(supportedEntryPoints.list, procs[p].epArg[2])
       THEN /\ procs[p].error \in {"none", "collaborator"}
            /\ \/ Requested(procs[p].log, "bundler.eth_estimateUserOperationGas") = 1
               \/ procs[p].error = "collaborator"
            /\ procs[p].pc = "estimating" => procs[p].draftEP = procs[p].epArg
       ELSE /\ procs[p].error = ErrUnsupportedEntryPoint
            /\ OnlyAskedEntryPoints(p)

\* an entry point written in another case than the stored one was accepted
C17_Witness ==
  \E p \in Procs :
    /\ procs[p].api = "estimateUserOperationGas"
    /\ procs[p].epArg = Str("0xeea")
    /\ supportedEntryPoints = [cached |-> TRUE, list |-> <<"0xEeA">>]
    /\ procs[p].pc = "estimating"
    /\ procs[p].draftEP = Str("0xeea")

\* the calls that run populateUserOperation
Populating == {"populateUserOperation", "sendTransaction", "estimateGas"}

(***************************************************************************)
(* C18: populateUserOperation takes the fee fields from the request when   *)
(* it carries both maxFeePerGas and maxPriorityFeePerGas, else both from   *)
(* gasPrice when the request carries it, else both from the network fee    *)
(* data; the network fee data is asked for in the third case only.         *)
(***************************************************************************)
C18_FeeResolution ==
  \A p \in Procs :
    procs[p].api \in Populating =>
      LET tx == procs[p].tx
          op == procs[p].op
          both == tx.maxFeePerGas # Absent /\ tx.maxPriorityFeePerGas # Absent
          flat == ~both /\ tx.gasPrice # Absent
          asked == Requested(procs[p].log, "provider.getFeeData")
      IN /\ asked = 0 \/ (asked = 1 /\ ~both /\ ~flat)
         /\ op.maxFeePerGas # Absent =>
              /\ both => /\ op.maxFeePerGas = tx.maxFeePerGas
                         /\ op.maxPriorityFeePerGas = tx.maxPriorityFeePerGas
              /\ flat => /\ op.maxFeePerGas = tx.gasPrice
                         /\ op.maxPriorityFeePerGas = tx.gasPrice
              /\ (~both /\ ~flat) =>
                    /\ op.maxFeePerGas = FeeData.maxFeePerGas
                    /\ op.maxPriorityFeePerGas = FeeData.maxPriorityFeePerGas
                    /\ asked = 1

\* a request with maxFeePerGas alone was populated from the network fee data
C18_Witness ==
  \E p \in Procs :
    /\ procs[p].api = "populateUserOperation"
    /\ procs[p].pc = "done"
    /\ procs[p].error = "none"
    /\ procs[p].tx.maxFeePerGas = Num(7)
    /\ procs[p].tx.maxPriorityFeePerGas = Absent
    /\ ops[procs[p].result[2]].maxFeePerGas = Num(100)
    /\ ops[procs[p].result[2]].maxPriorityFeePerGas = Num(2)

\* the call of p has sent a request to the bundler
AskedBundler(p) ==
  \E k \in DOMAIN procs[p].log :
    procs[p].log[k] \in {"bundler.eth_supportedEntryPoints",
                         "bundler.eth_estimateUserOperationGas",
                         "provider.eth_sendUserOperation"}

(***************************************************************************)
(* C19: populateUserOperation, and so sendTransaction, fails with          *)
(* 'transaction from mismatch' when the request carries a 'from' that      *)
(* differs from the delegate's address, both compared in lower case, and   *)
(* then sends nothing to the bundler (a call may also end earlier with the *)
(* error of a collaborator).                                               *)
(***************************************************************************)
C19_FromMismatch ==
  \A p \in Procs :
    (/\ procs[p].api \in {"populateUserOperation", "sendTransaction"}
     /\ procs[p].tx.to # Absent
     /\ procs[p].tx.from # Absent
     /\ ToLowerCase(procs[p].tx.from[2]) # ToLowerCase(DelegateAddress))
    => /\ ~AskedBundler(p)
       /\ procs[p].pc = "done" => procs[p].error \in {ErrFromMismatch, "collaborator"}

(***************************************************************************)
(* C20: populateUserOperation fails with 'no to' when the request has no   *)
(* destination, before any method of the delegate, the bundler or the      *)
(* execution-layer node has been called.                                   *)
(***************************************************************************)
C20_NoDestination ==
  \A p \in Procs :
    (/\ procs[p].api \in {"populateUserOperation", "sendTransaction"}
     /\ procs[p].tx.to \in {Absent, Undefined, JsonNull})
    => /\ procs[p].pc = "done"
       /\ procs[p].error = ErrNoTo
       /\ procs[p].log = <<>>

\* a populateUserOperation of a request without destination has failed
C20_Witness ==
  \E p \in Procs :
    /\ procs[p].api = "populateUserOperation"
    /\ procs[p].tx = NoRequest
    /\ procs[p].error = ErrNoTo
    /\ procs[p].log = <<>>

(***************************************************************************)
(* C21: whenever sendTransaction dispatches eth_sendUserOperation, the     *)
(* entry-point argument is the first element of the stored list of         *)
(* supported entry points; with exactly one advertised entry point, a      *)
(* destination in the request and no failing collaborator the request is   *)
(* dispatched; with two or more, sendTransaction fails in the estimation   *)
(* of populateUserOperation and dispatches nothing.                        *)
(***************************************************************************)
C21_SendsToFirstEntryPoint ==
  \A p \in Procs :
    procs[p].api = "sendTransaction" =>
      /\ Requested(procs[p].log, "provider.eth_sendUserOperation") >= 1 =>
           /\ Len(supportedEntryPoints.list) >= 1
           /\ procs[p].sentEP = Str(supportedEntryPoints.list[1])
      /\ (/\ procs[p].pc = "done"
          /\ procs[p].error # "collaborator"
          /\ procs[p].tx.to # Absent
          /\ Len(procs[p].eps) = 1) =>
           /\ procs[p].error = "none"
           /\ procs[p].result = UserOpHashOfBundler
           /\ Requested(procs[p].log, "provider.eth_sendUserOperation") = 1
           /\ procs[p].sentEP = Str(procs[p].eps[1])
      /\ Len(procs[p].eps) >= 2 =>
           /\ procs[p].error = ErrMultipleEntryPoints
           /\ Requested(procs[p].log, "provider.eth_sendUserOperation") = 0

\* a sendTransaction has been acknowledged for the single advertised entry point
C21_Witness ==
  \E p \in Procs :
    /\ procs[p].api = "sendTransaction"
    /\ procs[p].pc = "done"
    /\ procs[p].result = UserOpHashOfBundler
    /\ supportedEntryPoints.list = <<"0xEeA">>
    /\ procs[p].sentEP = Str("0xEeA")

\* C21 as stated: with one or more advertised entry points and no failing
\* collaborator, sendTransaction dispatches to the first of them
C21_AsStated ==
  \A p \in Procs :
    (/\ procs[p].api = "sendTransaction"
     /\ procs[p].pc = "done"
     /\ procs[p].error # "collaborator"
     /\ procs[p].tx.to # Absent
     /\ Len(procs[p].eps) >= 1)
    => /\ Requested(procs[p].log, "provider.eth_sendUserOperation") = 1
       /\ procs[p].sentEP = Str(procs[p].eps[1])

(***************************************************************************)
(* C22: a candidate event with another userOpHash that is delivered to the *)
(* tracker (by the subscription or as the first result of the historical   *)
(* query) is discarded without resolve or reject, and the tracker keeps    *)
(* waiting: a matching settlement event emitted afterwards, while the      *)
(* timeout has not elapsed, is still delivered to listenerCallback.        *)
(***************************************************************************)
C22_WrongHashKeepsWaiting ==
  [][/\ \A k \in DOMAIN cbs' : cbs'[k].ev = "wrongHash" => cbs'[k].pc = "returned"
     /\ \A i \in DOMAIN calls :
          (/\ calls[i] = [fn |-> "listenerCallback", arg |-> "wrongHash"]
           /\ Outcome = "Waiting"
           /\ timer = "armed"
           /\ Len(chain') = Len(chain) + 1
           /\ chain'[Len(chain')].ev \in {"success", "failure"})
          => calls' = Invoked(calls, chain'[Len(chain')].ev)]_vars

\* how often listenerCallback has been invoked
ListenerCalls ==
  Cardinality({i \in DOMAIN calls : calls[i].fn = "listenerCallback"})

(***************************************************************************)
(* C23: start() queries the history before any subscription exists,        *)
(* subscribes only if the query returned no event and otherwise passes     *)
(* only the first returned event to listenerCallback; listenerCallback is  *)
(* invoked at most once per started tracker.                               *)
(***************************************************************************)
C23_QueryThenSubscribe ==
  /\ query \in {"none", "sent", "served", "failed"} => (~sub /\ ListenerCalls = 0)
  /\ sub => (query = "done" /\ queryRes = <<>>)
  /\ ListenerCalls <= 1
  /\ (query = "done" /\ queryRes # <<>>) =>
       /\ ~sub
       /\ \E i \in DOMAIN calls :
            calls[i] = [fn |-> "listenerCallback", arg |-> queryRes[1]]

\* the historical query returned the settlement event, the event was handled
\* once, and a later candidate event reached no listener
C23_Witness ==
  /\ query = "done"
  /\ queryRes = <<"success">>
  /\ Len(chain) = 2
  /\ ListenerCalls = 1
  /\ Outcome = "Resolved"

\* the callers whose request for the list of entry points is in flight
FetchingEntryPoints(pp) == {p \in Procs : pp[p].pc = "fetchEPs"}

(***************************************************************************)
(* C24: for concurrent calls that need the list of supported entry points  *)
(* and start while it is unset, eth_supportedEntryPoints is requested at   *)
(* most once (no two requests are in flight together) and the field        *)
(* supportedEntryPoints is assigned at most once (no answer is stored on a *)
(* field that is already set).                                             *)
(***************************************************************************)
C24_RegistryWrittenOnce ==
  [][/\ Cardinality(FetchingEntryPoints(procs')) <= 1
     /\ \A p \in Procs :
          (/\ procs[p].pc = "fetchEPs"
           /\ procs'[p].pc # "fetchEPs"
           /\ ~(procs'[p].error = "collaborator" /\ procs'[p].log = procs[p].log))
          => ~supportedEntryPoints.cached]_vars

\* the calls that sign nothing
NonSigning == {"populateUserOperation", "estimateGas", "estimateUserOperationGas",
               "getSupportedEntryPoints", "sendUserOperation"}

C26_NoUnsignedDispatch ==
  \A p \in Procs :
    /\ (\/ procs[p].pc = "sending"
        \/ Requested(procs[p].log, "provider.eth_sendUserOperation") >= 1)
       => ~IsNullish(procs[p].sent.signature)
    /\ (/\ procs[p].api = "sendUserOperation"
        /\ IsNullish(ops[procs[p].uo].signature))
       => /\ procs[p].pc = "done"
          /\ procs[p].error = ErrNotSigned
          /\ procs[p].log = <<>>
          /\ procs[p].sent = NoFields

\* a sendUserOperation on an unsigned operation has failed
C26_Witness ==
  \E p \in Procs :
    /\ procs[p].api = "sendUserOperation"
    /\ IsNullish(ops[procs[p].uo].signature)
    /\ procs[p].error = ErrNotSigned

(***************************************************************************)
(* C27: populateUserOperation calls the delegate's getPaymasterAndData     *)
(* exactly once, as its last request and after the gas estimation, with an *)
(* operation whose two fee fields and three gas-limit fields are set; the  *)
(* returned operation holds its answer in paymasterAndData, and the        *)
(* estimate-time paymaster data is never stored on the operation.          *)
(***************************************************************************)
C27_PaymasterDataLast ==
  \A p \in Procs :
    procs[p].api = "populateUserOperation" =>
      LET log == procs[p].log
          op == procs[p].op
          n == Requested(log, "delegate.getPaymasterAndData")
      IN /\ n <= 1
         /\ op.paymasterAndData # DelegatePaymasterAndDataForEstimateGas
         /\ (procs[p].pc = "done" /\ procs[p].error = "none") =>
              /\ n = 1
              /\ log[Len(log)] = "delegate.getPaymasterAndData"
              /\ ops[procs[p].result[2]].paymasterAndData = DelegatePaymasterAndData
         /\ n = 1 =>
              /\ \E k \in DOMAIN log : log[k] = "bundler.eth_estimateUserOperationGas"
              /\ ~IsNullish(op.maxFeePerGas)
              /\ ~IsNullish(op.maxPriorityFeePerGas)
              /\ ~IsNullish(op.callGasLimit)
              /\ ~IsNullish(op.verificationGasLimit)
              /\ ~IsNullish(op.preVerificationGas)

NonZero(v) == ~IsNullish(v) /\ v[2] # 0

(***************************************************************************)
(* C29: the draft operation sent in eth_estimateUserOperationGas has a     *)
(* non-zero value in each of callGasLimit, verificationGasLimit and        *)
(* preVerificationGas.                                                     *)
(***************************************************************************)
C29_NonZeroPlaceholders ==
  \A p \in Procs :
    Requested(procs[p].log, "bundler.eth_estimateUserOperationGas") >= 1 =>
      /\ NonZero(procs[p].draft.callGasLimit)
      /\ NonZero(procs[p].draft.verificationGasLimit)
      /\ NonZero(procs[p].draft.preVerificationGas)

\* the optional fields of a UserOperation
OptionalFields == {"callGasLimit", "verificationGasLimit", "preVerificationGas",
                   "paymasterAndData", "signature"}

(***************************************************************************)
(* C30: in the object UserOperation.toJSON returns, each of callGasLimit,  *)
(* verificationGasLimit, preVerificationGas, paymasterAndData and          *)
(* signature that is unset on the operation is present with the value      *)
(* null, never omitted.                                                    *)
(***************************************************************************)
C30_MissingSerializesAsNull ==
  \A p \in Procs :
    (procs[p].api = "toJSON" /\ procs[p].pc = "done") =>
      \A f \in OptionalFields :
        IsNullish(ops[procs[p].uo][f]) => procs[p].json[f] = JsonNull

(***************************************************************************)
(* C31: when a delegate call, a bundler call or an execution-layer query   *)
(* fails during sendTransaction, the call ends with that error and no      *)
(* result, the failed request is the last one the call has made (it is not *)
(* issued again and no later step runs), and eth_sendUserOperation is not  *)
(* sent unless it is the request that failed.                              *)
(***************************************************************************)
C31_ErrorsReachTheCaller ==
  \A p \in Procs :
    (procs[p].api = "sendTransaction" /\ procs[p].failed # "none") =>
      LET log == procs[p].log
      IN /\ procs[p].pc = "done"
         /\ procs[p].error = "collaborator"
         /\ procs[p].result = Absent
         /\ log # <<>>
         /\ log[Len(log)] = procs[p].failed
         /\ \A k \in 1..(Len(log) - 1) : log[k] # "provider.eth_sendUserOperation"

\* a sendTransaction has ended with the failure of getPaymasterAndData,
\* after the estimation and before any signing
C31_Witness ==
  \E p \in Procs :
    /\ procs[p].api = "sendTransaction"
    /\ procs[p].failed = "delegate.getPaymasterAndData"
    /\ procs[p].error = "collaborator"
    /\ Requested(procs[p].log, "bundler.eth_estimateUserOperationGas") = 1
    /\ Requested(procs[p].log, "delegate.signUserOp") = 0

(***************************************************************************)
(* C32: getSigner returns the provider's one signer exactly when the       *)
(* address is omitted, is the number 0, or is a string equal to the        *)
(* delegate's address when both are written in lower case (and the         *)
(* delegate has answered getAddress); for another number or string it      *)
(* fails with an UNSUPPORTED_OPERATION error and returns nothing.          *)
(***************************************************************************)
C32_GetSigner ==
  \A p \in Procs :
    procs[p].api = "getSigner" =>
      LET a == procs[p].address
          accepted == \/ a = Absent
                      \/ a = Num(0)
                      \/ /\ a # Absent
                         /\ a[1] = "str"
                         /\ ToLowerCase(a[2]) = ToLowerCase(DelegateAddress)
      IN /\ procs[p].pc = "done"
         /\ procs[p].result \in {Absent, Str("this.signer")}
         /\ procs[p].failed = "none" =>
              /\ accepted <=> (procs[p].result = Str("this.signer")
                                 /\ procs[p].error = "none")
              /\ ~accepted =>
                   /\ procs[p].result = Absent
                   /\ procs[p].error
                        = IF a[1] = "num" THEN ErrOneAddress ELSE ErrAddressMismatch
         /\ procs[p].failed # "none" =>
              (procs[p].result = Absent /\ procs[p].error = "collaborator")

\* the signer was returned for the address written in upper case, and
\* refused for the account index 1
C32_Witness ==
  /\ procs["c1"].api = "getSigner"
  /\ procs["c1"].address = Str("0xABC")
  /\ procs["c1"].result = Str("this.signer")
  /\ procs["c2"].api = "getSigner"
  /\ procs["c2"].address = Num(1)
  /\ procs["c2"].error = ErrOneAddress

(***************************************************************************)
(* C33: a matching settlement event emitted between the start of tracking  *)
(* and the timeout is observed by the tracker: when such an event is       *)
(* emitted and no candidate has reached the tracker yet, either the        *)
(* subscription passes it to listenerCallback in that step, or the         *)
(* historical query has still to be evaluated by the node and can return   *)
(* it; there is no moment at which neither is the case.                    *)
(***************************************************************************)
C33_NoMissedEvent ==
  [][(/\ started
      /\ ~startThrew
      /\ timer = "armed"
      /\ ListenerCalls = 0
      /\ Len(chain') = Len(chain) + 1
      /\ chain'[Len(chain')].ev \in {"success", "failure"})
     => \/ calls' = Invoked(calls, chain'[Len(chain')].ev)
        \/ query \in {"none", "sent"}]_vars

(***************************************************************************)
(* C34: the tracker's resolved flag is true if and only if its outcome is  *)
(* Resolved (resolve was the first callback invoked); it is false while    *)
(* the tracker waits, after Failed and after TimedOut.                     *)
(***************************************************************************)
C34_ResolvedFlag == resolved <=> (Outcome = "Resolved")

\* the errors of the entry-point resolution, lines 200-211 and 189-192
EntryPointErrors ==
  {ErrMultipleEntryPoints, ErrNoEntryPoints, ErrUnsupportedEntryPoint}

(***************************************************************************)
(* C35: when estimateUserOperationGas fails while it resolves or verifies  *)
(* the entry point, the operation passed in is left as it was (gas limits, *)
(* paymasterAndData, signature and every other field), and neither the     *)
(* delegate's estimate-time methods nor the bundler's estimation have been *)
(* called.                                                                 *)
(***************************************************************************)
C35_FailedEstimateLeavesOperation ==
  [][\A p \in Procs :
       (/\ procs'[p] # procs[p]
        /\ procs'[p].api = "estimateUserOperationGas"
        /\ procs'[p].error \in EntryPointErrors)
       => /\ ops'[procs'[p].uo] = ops[procs'[p].uo]
          /\ \A k \in DOMAIN procs'[p].log :
               procs'[p].log[k] = "bundler.eth_supportedEntryPoints"]_vars

\* an estimation with an unsupported entry point has failed on an operation
\* that carries its own gas limits
C35_Witness ==
  \E p \in Procs :
    /\ procs[p].api = "estimateUserOperationGas"
    /\ procs[p].error = ErrUnsupportedEntryPoint
    /\ ops[procs[p].uo].callGasLimit = Num(30)
    /\ ops[procs[p].uo].preVerificationGas = Num(20)

(***************************************************************************)
(* C36: the two fee fields of a populated operation come from one source:  *)
(* the pair is the request's explicit pair, or gasPrice twice, or the pair *)
(* of the network fee data; a request with only one of maxFeePerGas and    *)
(* maxPriorityFeePerGas never yields that value next to a value of another *)
(* source.                                                                 *)
(***************************************************************************)
C36_FeesFromOneSource ==
  \A p \in Procs :
    (procs[p].api \in Populating /\ procs[p].op.maxFeePerGas # Absent) =>
      LET tx == procs[p].tx
          pair == <<procs[p].op.maxFeePerGas, procs[p].op.maxPriorityFeePerGas>>
          half == (tx.maxFeePerGas = Absent) # (tx.maxPriorityFeePerGas = Absent)
      IN /\ \/ /\ tx.maxFeePerGas # Absent
               /\ tx.maxPriorityFeePerGas # Absent
               /\ pair = <<tx.maxFeePerGas, tx.maxPriorityFeePerGas>>
            \/ tx.gasPrice # Absent /\ pair = <<tx.gasPrice, tx.gasPrice>>
            \/ pair = <<FeeData.maxFeePerGas, FeeData.maxPriorityFeePerGas>>
         /\ half => /\ pair[1] # tx.maxFeePerGas
                    /\ pair[2] # tx.maxPriorityFeePerGas

\* a sendTransaction with maxFeePerGas alone was dispatched with both fee
\* fields of the network
C36_Witness ==
  \E p \in Procs :
    /\ procs[p].api = "sendTransaction"
    /\ procs[p].pc = "sending"
    /\ procs[p].tx.maxFeePerGas = Num(7)
    /\ procs[p].tx.maxPriorityFeePerGas = Absent
    /\ procs[p].sent.maxFeePerGas = Hex(100)
    /\ procs[p].sent.maxPriorityFeePerGas = Hex(2)

\* the request for the list of supported entry points
FetchEntryPoints == "bundler.eth_supportedEntryPoints"

(***************************************************************************)
(* C37: when the request eth_supportedEntryPoints fails, the field         *)
(* supportedEntryPoints stays unset and the call ends with that error; the *)
(* next call that needs the list asks the bundler again, and the list that *)
(* arrives is the one stored.                                              *)
(***************************************************************************)
C37_FailedFetchNotCached ==
  [][\A p \in Procs :
       /\ (procs[p].pc = "fetchEPs" /\ procs'[p].pc # "fetchEPs") =>
            IF procs'[p].failed = FetchEntryPoints
            THEN /\ supportedEntryPoints' = supportedEntryPoints
                 /\ ~supportedEntryPoints'.cached
                 /\ procs'[p].pc = "done"
                 /\ procs'[p].error = "collaborator"
                 /\ procs'[p].result = Absent
            ELSE supportedEntryPoints' = [cached |-> TRUE, list |-> procs'[p].eps]
       /\ (/\ procs[p].failed = FetchEntryPoints
           /\ nCalls' = nCalls + 1
           /\ procs'[p].api \in {"getSupportedEntryPoints", "estimateUserOperationGas"})
          => /\ procs'[p].pc = "fetchEPs"
             /\ procs'[p].log = <<FetchEntryPoints>>]_vars

\* a second request for the list has failed as the first call's did: the
\* field is still unset
C37_Witness ==
  \E p \in Procs :
    /\ nCalls = 2
    /\ procs[p].api = "getSupportedEntryPoints"
    /\ procs[p].failed = FetchEntryPoints
    /\ procs[p].error = "collaborator"
    /\ supportedEntryPoints = [cached |-> FALSE, list |-> <<>>]

====
